---- MODULE Spec2Model ----
(***************************************************************************)
(* The acquisition-and-playback pipeline of workingdesktopappdownloader.py *)
(* StreamPlayer (stream queue driver, acquisition job, playback session)   *)
(* and DownloadManager (batch download driver).                            *)
(*                                                                         *)
(* Threads: the run thread executing StreamPlayer.stream_playlist, one     *)
(* daemon thread per prefetch of the next entry, and the UI thread, which  *)
(* runs the control handlers (pause, resume, skip, stop) one at a time.    *)
(* Time passes in the polling sleep of play_song: one unit of `now` is one *)
(* polling interval (time.sleep(0.3)); all other code is instantaneous.    *)
(* Spec (a run with the user at the controls; FairSpec adds the scheduling *)
(* of the run thread) and SpecQuiet (a run left alone) hold the clock      *)
(* still and count the polls of the safety timeout; SpecTime lets the      *)
(* clock run for a queue of one entry; SpecBatch is the batch download.    *)
(***************************************************************************)
EXTENDS Integers, Sequences, FiniteSets, TLC

\* ------------------------------------------------------------------ bounds
\* Largest number of entries a resolved URL yields: under Spec, under
\* SpecQuiet (a run the user leaves alone) and under SpecAcq.
MaxEntries == 2
MaxEntriesQuiet == 3
MaxEntriesAcq == 2
\* The safety timeout of a session, max(10.0, duration + 30.0) seconds, in
\* polling intervals: under Spec, and under SpecTime.
TimeoutPolls == 1
TimeoutPollsTimed == 3
\* Number of control calls (pause, resume, skip, stop) the user makes: under
\* Spec, and under SpecTime.
MaxCtl == 2
MaxCtlTimed == 4
\* Largest number of entries a batch download fetches, and the number of
\* batch downloads the user starts.
MaxBatch == 2
MaxBatchRuns == 2
\* Number of calls of get_duration_best_effort on one file.
MaxDurCalls == 2

Entries == 0 .. ((IF MaxEntries > MaxEntriesQuiet THEN MaxEntries ELSE MaxEntriesQuiet) - 1)
\* Handle h is the playable handle SoundLoader.load returns in iteration h.
Handles == Entries

\* The entries of a batch download; entry e is fetched to "dl_<id of e>.<ext>".
BatchIds == 0 .. (MaxBatch - 1)

\* The files an acquisition job for entry e can leave in temp_dir:
\* "<safe_title>.<ext>" written by the fetch and "<safe_title>_conv.mp3".
DlFile(e) == <<e, "dl">>
ConvFile(e) == <<e, "conv">>
Files == {DlFile(e) : e \in Entries} \cup {ConvFile(e) : e \in Entries}

VARIABLES
    \* StreamPlayer fields
    sound, current_file, queue, current_index, stop_flag, pause_flag,
    skip_flag, progress_event, play_start_time, total_paused_time,
    last_pause_time, pause_position,
    \* run thread: position and locals of stream_playlist / play_song
    \* (start_check: the time the polling loop of play_song was entered)
    pc, i, entries, filename, success, timeout_left, start_check,
    \* acquisition jobs: job 0 is the blocking call of the run thread, job k
    \* (k >= 1) is the prefetch thread started for entry k. A job that reaches
    \* the transcoder has picked the fetched file: downloaded_path is DlFile
    \* when it scans temp_dir. jhow tells how the last blocking call ended
    \* and what kind of candidate file its scan had picked
    jpc, jhow,
    \* UI thread: position inside the running handler, control calls left
    upc, ctl,
    \* environment: wall clock, temp_dir contents, handles, capabilities
    \* and the container each entry's URL is fetched in
    now, tmp, hstate, hpos, getpos_kind, seek_kind, source_kind,
    \* history: entries whose blocking preparation began / succeeded, and
    \* entries whose handle was started by play_song, in order; whether the
    \* backend refused a handle for an existing file; entries skip() was called
    \* for; the entry in whose session stop() was called; whether the final
    \* purge of the run was done; the last pause: <<elapsed at pause()>>, then
    \* <<elapsed at pause(), time of resume()>>
    prepLog, prepOK, playLog, handleFailed, skipped, stopSession, purged, cycle,
    \* DownloadManager: its stop flag; position, loop index and number of
    \* entries of the worker thread in _download_audio; the files of the
    \* directory temp_download as <<id, kind>>, oldest modification first; the
    \* files of APP_DIR named after each entry as <<container, id of the
    \* download the content came from>>; batch downloads started so far
    \* and how the last entry of the batch loop was handled
    download_stop_flag, bpc, bi, binfo, temp_download, library, bruns, blast,
    \* one call of convert_to_mp3_with_ffmpeg on the files of entry 0 in
    \* temp_dir: position, what the transcoder process did, the target file
    \* before the call, the value returned
    conv_call,
    \* get_duration_best_effort on one file: what each source yields (the
    \* entry's "duration", mutagen's info.length, the loaded handle's length,
    \* the file size), the values returned by the calls made so far, and the
    \* handles SoundLoader.load has created for them
    dur_call,
    \* the last call of ui.update_playback_progress that _progress_tick
    \* scheduled, with the sources of the file's duration at that tick
    progress,
    \* a second thread on stream_playlist, started while the first one runs
    pc2,
    \* the last call of pause() or resume() that its guard kept out
    ignored

player == <<sound, current_file, queue, current_index, stop_flag, pause_flag,
            skip_flag, progress_event>>
timing == <<play_start_time, total_paused_time, last_pause_time, pause_position>>
runloc == <<pc, i, entries, filename, success, timeout_left, start_check>>
jobs == <<jpc, jhow>>
uith == <<upc, ctl>>
caps == <<getpos_kind, seek_kind, source_kind>>
logs == <<prepLog, prepOK, playLog>>
ghost == <<handleFailed, skipped, stopSession, purged, cycle>>
hist == <<logs, ghost>>
batch == <<download_stop_flag, bpc, bi, binfo, temp_download, library, bruns,
           blast>>
stream == <<player, timing, runloc, jobs, uith, caps, hist, now, tmp, hstate, hpos>>
aside == <<progress, pc2, ignored>>
util == <<conv_call, dur_call, aside>>
vars == <<stream, batch, util>>

\* ----------------------------------------------------------------- helpers
Exists(f) == tmp[f] # "absent"

\* StreamPlayer.cleanup_temp: remove every file of temp_dir but current_file.
cleanup_temp(t, cur) == [f \in Files |-> IF f \in cur THEN t[f] ELSE "absent"]

\* A release that leaves the handle as it is.
StopUnloadKeeps(hs, s) == hs

\* sound.stop(); sound.unload() on the handle self.sound refers to, if any.
StopUnload(hs, s) == [h \in Handles |-> IF h \in s THEN "unloaded" ELSE hs[h]]

\* sound.stop() on the handle self.sound refers to, if any.
StopSound(hs, s) == [h \in Handles |-> IF h \in s /\ hs[h] = "play" THEN "stop" ELSE hs[h]]

\* getattr(self.sound, "state", None)
SoundState == IF sound = {} THEN "None" ELSE hstate[CHOOSE h \in sound : TRUE]

\* A stop_progress_updates that leaves the scheduled tick in place.
stop_progress_updatesKeeps == progress_event

\* stop_progress_updates, lines 1016-1022: the scheduled tick is cancelled and
\* progress_event becomes None.
stop_progress_updates == FALSE

\* The run thread is inside play_song (lines 895-1007).
InSession == pc \in {"ps_enter", "ps_load", "ps_play", "ps_setup", "ps_loop",
                     "ps_sleep", "ps_clean"}

\* The entry an acquisition job works on.
JobEntry(t) == IF t = 0 THEN i ELSE t

\* How a blocking call of _prepare_for_stream ended, for a candidate file of
\* kind `kind`.
Outcome(how, kind) == [how |-> how, kind |-> kind]

\* The batch loop has handled no entry of the running batch download.
NoEntry == [e |-> 0, id |-> 0, kind |-> "absent", how |-> "none"]

\* ------------------------------------------------------------------- Init
InitPlayer ==
    /\ sound = {} /\ current_file = {} /\ queue = <<>> /\ current_index = 0
    /\ stop_flag = FALSE /\ pause_flag = FALSE /\ skip_flag = FALSE
    /\ progress_event = FALSE
    /\ play_start_time = 0 /\ total_paused_time = 0
    /\ last_pause_time = 0 /\ pause_position = 0
    /\ pc = "idle" /\ i = 0 /\ entries = <<>> /\ filename = {}
    /\ success = FALSE /\ timeout_left = 0 /\ start_check = 0
    /\ jpc = [t \in Entries |-> "off"] /\ jhow = Outcome("none", "absent")
    /\ upc = "idle"
    /\ now = 1
    /\ hstate = [h \in Handles |-> "none"] /\ hpos = 0
    /\ prepLog = <<>> /\ prepOK = {} /\ playLog = <<>>
    /\ handleFailed = FALSE /\ skipped = {} /\ stopSession = {}
    /\ purged = FALSE /\ cycle = <<>>
    /\ download_stop_flag = FALSE /\ bpc = "idle" /\ bi = 0 /\ binfo = 0
    /\ temp_download = <<>> /\ library = [e \in BatchIds |-> {}]
    /\ bruns = 0 /\ blast = NoEntry

\* Every entry's URL is fetched in a container that is not mp3.
RawSources == source_kind = [e \in Entries |-> "raw"]

\* temp_dir is empty.
EmptyTemp == tmp = [f \in Files |-> "absent"]

\* No progress event was scheduled yet.
NoEvent == [sent |-> FALSE, pct |-> <<0, 1>>, elapsed |-> 0, total |-> {},
            src |-> [entry |-> <<"nometa", 0>>, mutagen |-> <<"nomutagen", 0>>,
                     loader |-> <<"none", 0>>, size |-> <<"inaccessible", 0>>]]

NoProgress == progress = NoEvent

\* No call of pause() or resume() was kept out by its guard.
NoneIgnored == ignored = "none"

\* start_stream was called once at most.
OneRun == pc2 = "idle"

\* No call of the transcoder harness.
NoConvCall ==
    conv_call = [pc |-> "off", out |-> "none", before |-> "absent", ret |-> FALSE]

\* No call of the duration harness.
NoDurCall ==
    dur_call = [entry |-> <<"nometa", 0>>, mutagen |-> <<"nomutagen", 0>>,
                loader |-> <<"none", 0>>, size |-> <<"inaccessible", 0>>,
                rets |-> <<>>, loaded |-> 0]

\* The state after construction (StreamPlayer.__init__, lines 671-689), with
\* a backend whose handles report their position and can seek.
Init ==
    /\ InitPlayer /\ NoProgress /\ OneRun /\ NoneIgnored /\ EmptyTemp /\ NoConvCall /\ NoDurCall
    /\ ctl = MaxCtl
    /\ getpos_kind = "value" /\ seek_kind = "ok" /\ RawSources

\* The same, for every kind of backend: get_pos gives the position, gives
\* None or raises; seek works, raises or is missing.
InitTimed ==
    /\ InitPlayer /\ NoProgress /\ OneRun /\ NoneIgnored /\ EmptyTemp /\ NoConvCall /\ NoDurCall
    /\ ctl = MaxCtlTimed
    /\ getpos_kind \in {"value", "none", "raise"}
    /\ seek_kind \in {"ok", "raise", "absent"}
    /\ RawSources

\* ------------------------------------------------- UI: DownloaderUI.start_stream
\* start_stream starts the run thread on stream_playlist.
StartStream ==
    /\ pc = "idle"
    /\ pc' = "init"
    /\ UNCHANGED <<player, timing, i, entries, filename, success, timeout_left, start_check,
                   jobs, uith, caps, batch, util, hist, now, tmp, hstate, hpos>>

\* ------------------------------------------ run thread: stream_playlist
\* Lines 705-710: reset the flags and the index, purge temp_dir.
RunInit ==
    /\ pc = "init"
    /\ stop_flag' = FALSE /\ pause_flag' = FALSE /\ skip_flag' = FALSE
    /\ current_index' = 0
    /\ tmp' = cleanup_temp(tmp, current_file)
    /\ pc' = "resolve"
    /\ UNCHANGED <<sound, current_file, queue, progress_event, timing, i,
                   entries, filename, success, timeout_left, start_check, jobs, uith, caps, batch, util,
                   hist, now, hstate, hpos>>

\* Lines 712-717: get_playlist_entries yields m entries; none ends the run.
Resolve(m) ==
    /\ pc = "resolve"
    /\ entries' = [k \in 1 .. m |-> k - 1]
    /\ IF m = 0
         THEN /\ pc' = "done"
              /\ UNCHANGED queue
         ELSE /\ pc' = "loop"
              /\ queue' = entries'
    /\ i' = 0
    /\ UNCHANGED <<sound, current_file, current_index, stop_flag, pause_flag,
                   skip_flag, progress_event, timing, filename, success,
                   timeout_left, start_check, jobs, uith, caps, batch, util, hist, now, tmp, hstate, hpos>>

\* A loop that passes over the entry after the one of index k.
NextIndexSkips(k) == k + 2

\* The value of the loop variable after the iteration of index k.
NextIndex(k) == k + 1

\* A loop that looks at the entries only.
LoopEndsExhausted == i >= Len(entries)

\* Lines 718-720: the loop is over when the entries are exhausted or stop is
\* set.
LoopEnds == i >= Len(entries) \/ stop_flag

\* Lines 718-725: the head of an iteration; the blocking preparation begins.
LoopHead ==
    /\ pc = "loop"
    /\ IF LoopEnds
         THEN /\ pc' = "final"
              /\ UNCHANGED <<current_index, jobs, prepLog>>
         ELSE /\ current_index' = i
              /\ pc' = "prepare"
              /\ jpc' = [jpc EXCEPT ![0] = "dl"] /\ jhow' = Outcome("none", "absent")
              /\ prepLog' = Append(prepLog, i)
    /\ UNCHANGED <<sound, current_file, queue, stop_flag, pause_flag, skip_flag,
                   progress_event, timing, i, entries, filename, success,
                   timeout_left, start_check, uith, caps, batch, util, prepOK, playLog, ghost, now, tmp,
                   hstate, hpos>>

\* Line 725 raising (an entry that is None has no .get): caught at line 746.
PrepareRaises ==
    /\ pc = "prepare" /\ jpc[0] = "dl"
    /\ jpc' = [jpc EXCEPT ![0] = "off"] /\ jhow' = Outcome("raised", "absent")
    /\ pc' = "loop" /\ i' = NextIndex(i)
    /\ UNCHANGED <<player, timing, entries, filename, success, timeout_left, start_check,
                   uith, caps, batch, util, hist, now, tmp, hstate, hpos>>

\* Lines 737-745: after play_song, remove the cached file. The iteration
\* ends: its locals are dead.
AfterPlay ==
    /\ pc = "post"
    /\ tmp' = [f \in Files |-> IF f \in filename THEN "absent" ELSE tmp[f]]
    /\ pc' = "loop" /\ i' = NextIndex(i)
    /\ filename' = {} /\ success' = FALSE
    /\ UNCHANGED <<player, timing, entries, timeout_left, start_check, jobs, uith, caps, batch, util,
                   hist, now, hstate, hpos>>

\* Lines 750-753: the end of the run purges temp_dir.
RunFinal ==
    /\ pc = "final"
    /\ tmp' = cleanup_temp(tmp, current_file)
    /\ pc' = "done"
    /\ purged' = TRUE
    /\ UNCHANGED <<player, timing, i, entries, filename, success, timeout_left, start_check,
                   jobs, uith, caps, batch, util, logs, handleFailed, skipped, stopSession,
                   cycle, now, hstate, hpos>>

\* ------------------------------ acquisition job: _prepare_for_stream(entry)
\* Job t is at the step named st (the run thread only while it is in the call).
JobAt(t, st) == jpc[t] = st /\ (t = 0 => pc = "prepare")

\* Lines 730-734: the prefetch thread of the entry after k is started, if
\* there is such an entry.
SpawnPrefetch(j, k) ==
    IF k + 1 < Len(entries) THEN [j EXCEPT ![k + 1] = "dl"] ELSE j

\* _prepare_for_stream returns r (no path, or one path). A prefetch thread
\* ends. The run thread goes on at line 726: no path continues with the next
\* entry (lines 727-729), a path starts the prefetch of the next entry and
\* enters play_song (lines 730-736).
JobReturn(t, r, how) ==
    IF t = 0
      THEN /\ filename' = r /\ jhow' = how
           /\ IF r = {}
                THEN /\ pc' = "loop" /\ i' = NextIndex(i)
                     /\ jpc' = [jpc EXCEPT ![0] = "off"]
                     /\ UNCHANGED prepOK
                ELSE /\ pc' = "ps_enter" /\ i' = i
                     /\ jpc' = SpawnPrefetch([jpc EXCEPT ![0] = "off"], i)
                     /\ prepOK' = prepOK \cup {i}
      ELSE /\ jpc' = [jpc EXCEPT ![t] = "done"]
           /\ UNCHANGED <<pc, i, filename, prepOK, jhow>>

\* Lines 820-832, 855-857: the fetch raises, or leaves no non-empty file.
FetchFails(t) ==
    /\ JobAt(t, "dl")
    /\ JobReturn(t, {}, Outcome("fetch_failed", "absent"))
    /\ UNCHANGED <<player, timing, entries, success, timeout_left, start_check, uith,
                   caps, batch, util, prepLog, playLog, ghost, now, tmp, hstate, hpos>>

\* A signature test that never recognises a file.
is_real_mp3Never(kind) == FALSE

\* is_real_mp3 (lines 219-232): the file starts with "ID3" or 0xff 0xfb.
is_real_mp3(kind) == kind = "mp3"

\* Lines 838-850 on the directory t: the files whose name starts with the
\* entry's title; a name ending in ".mp3" ends the scan, otherwise the last
\* one listed wins.
ScanChoices(t, e) ==
    LET mine == {f \in {DlFile(e), ConvFile(e)} : t[f] \notin {"absent", "empty"}}
        mp3named == {f \in mine : f = ConvFile(e) \/ t[f] = "mp3"}
    IN  IF mp3named # {} THEN mp3named ELSE mine

\* Lines 820-893 up to the transcoder call: the fetch writes the entry's file
\* (overwrites: True), an mp3 or another container; the scan picks a file; a
\* real mp3 is used directly, and so is the original file when ffmpeg_exists()
\* (lines 161-169, a probe with a time limit) says no.
FetchDone(t, kind, ffmpeg) ==
    /\ JobAt(t, "dl")
    /\ tmp' = [tmp EXCEPT ![DlFile(JobEntry(t))] = kind]
    /\ \E p \in ScanChoices(tmp', JobEntry(t)) :
          IF is_real_mp3(tmp'[p])
            THEN JobReturn(t, {p}, Outcome("direct", tmp'[p]))
          ELSE IF ~ffmpeg
            THEN JobReturn(t, {p}, Outcome("no_ffmpeg", tmp'[p]))
            ELSE /\ jpc' = [jpc EXCEPT ![t] = "conv"]
                 /\ UNCHANGED <<pc, i, filename, prepOK, jhow>>
    /\ UNCHANGED <<player, timing, entries, success, timeout_left, start_check, uith, caps, batch, util,
                   prepLog, playLog, ghost, now, hstate, hpos>>

\* What a call of the transcoder can meet: ffmpeg_exists() says no (lines
\* 177-179); the ffmpeg process exits with code 0 and a complete target, or
\* with code 0 and a target of zero bytes; it exits with another code before
\* or after it has written part of the target; subprocess.run raises (the
\* time limit of 120 s, or another error) with part of the target written.
ConvOutcomes == {"unavailable", "exit0", "exit0_empty", "nonzero",
                 "nonzero_partial", "timeout"}

\* The outcomes the streaming and batch specifications draw from.
PlainOutcomes == {"exit0", "nonzero_partial"}

\* ffmpeg exits with code 0 only when it could read its source.
CanEnd(t, source, out) ==
    out \in {"exit0", "exit0_empty"} => t[source] \notin {"absent", "empty"}

\* Line 192: the directory after the ffmpeg process ("-y": the target is
\* overwritten).
FfmpegRun(t, target, out) ==
    CASE out = "exit0" -> [t EXCEPT ![target] = "mp3"]
      [] out = "exit0_empty" -> [t EXCEPT ![target] = "empty"]
      [] out \in {"nonzero_partial", "timeout"} -> [t EXCEPT ![target] = "partial"]
      [] OTHER -> t

\* Line 193: proc.returncode == 0 and os.path.exists(target_path).
ConvertSucceeds(t, target, out) ==
    /\ out \in {"exit0", "exit0_empty"}
    /\ FfmpegRun(t, target, out)[target] # "absent"

\* A cleanup that leaves the target where it is.
RemoveTargetKeeps(t, target) == t

\* Lines 201-206 and 211-215: remove the target if it exists.
RemoveTarget(t, target) == [t EXCEPT ![target] = "absent"]

\* convert_to_mp3_with_ffmpeg (lines 171-216): the directory when it returns.
\* It returns ConvertSucceeds.
convert_to_mp3_with_ffmpeg(t, target, out) ==
    IF out = "unavailable"
      THEN t
      ELSE IF ConvertSucceeds(t, target, out)
             THEN FfmpegRun(t, target, out)
             ELSE RemoveTarget(FfmpegRun(t, target, out), target)

\* A job that gives up when the transcoder has failed.
FallsBackNever(t, p) == FALSE

\* Line 889: the original file is used if it (still) exists.
FallsBack(t, p) == t[p] # "absent"

\* Lines 876-893: the transcoder ends; on failure the original file is used.
Convert(t, out) ==
    /\ JobAt(t, "conv")
    /\ LET e == JobEntry(t)
           p == DlFile(e)
       IN  /\ CanEnd(tmp, p, out)
           /\ tmp' = convert_to_mp3_with_ffmpeg(tmp, ConvFile(e), out)
           /\ IF ConvertSucceeds(tmp, ConvFile(e), out) /\ tmp'[ConvFile(e)] # "absent"
                THEN JobReturn(t, {ConvFile(e)}, Outcome("converted", tmp[p]))
              ELSE IF FallsBack(tmp', p) THEN JobReturn(t, {p}, Outcome("kept", tmp[p]))
              ELSE JobReturn(t, {}, Outcome("lost", tmp[p]))
    /\ UNCHANGED <<player, timing, entries, success, timeout_left, start_check, uith,
                   caps, batch, util, prepLog, playLog, ghost, now, hstate, hpos>>

\* ------------------------------------- run thread: play_song(filename, entry)
\* play_song returns r to line 736.
\* A driver that ends the run when play_song returns False.
PlayReturnEnds(r) == success' = r /\ pc' = IF r THEN "post" ELSE "final"

PlayReturn(r) == success' = r /\ pc' = "post"

\* Lines 900-916: a missing file returns False; otherwise the previous handle
\* is stopped and released and current_file becomes the file.
PlayEnter ==
    /\ pc = "ps_enter"
    /\ IF \E f \in filename : ~Exists(f)
         THEN /\ PlayReturn(FALSE)
              /\ UNCHANGED <<sound, current_file, hstate>>
         ELSE /\ hstate' = StopUnload(hstate, sound)
              /\ sound' = {}
              /\ current_file' = filename
              /\ pc' = "ps_load"
              /\ UNCHANGED success
    /\ UNCHANGED <<queue, current_index, stop_flag, pause_flag, skip_flag,
                   progress_event, timing, i, entries, filename, timeout_left, start_check,
                   jobs, uith, caps, batch, util, hist, now, tmp, hpos>>

\* Lines 918-928: SoundLoader.load gives a handle (ok) or None.
LoadSound(ok) ==
    /\ pc = "ps_load"
    /\ ok => \A f \in filename : Exists(f)
    /\ IF ok
         THEN /\ sound' = {i}
              /\ hstate' = [hstate EXCEPT ![i] = "stop"]
              /\ pc' = "ps_play"
              /\ UNCHANGED success
         ELSE /\ sound' = {}
              /\ PlayReturn(FALSE)
              /\ UNCHANGED hstate
    /\ handleFailed' = (handleFailed \/ (~ok /\ \A f \in filename : Exists(f)))
    /\ UNCHANGED <<current_file, queue, current_index, stop_flag, pause_flag,
                   skip_flag, progress_event, timing, i, entries, filename,
                   timeout_left, start_check, jobs, uith, caps, batch, util, logs, skipped, stopSession,
                   purged, cycle, now, tmp, hpos>>

\* Lines 937-944: self.sound.play(); it raises when stop() has reset
\* self.sound to None in between, or when the backend refuses (ok = FALSE).
StartPlay(ok) ==
    /\ pc = "ps_play"
    /\ IF ok /\ sound # {}
         THEN /\ hstate' = [h \in Handles |-> IF h \in sound THEN "play" ELSE hstate[h]]
              /\ hpos' = 0
              /\ playLog' = Append(playLog, i)
              /\ pc' = "ps_setup"
              /\ UNCHANGED success
         ELSE /\ PlayReturn(FALSE)
              /\ UNCHANGED <<hstate, hpos, playLog>>
    /\ handleFailed' = (handleFailed \/ (~ok /\ sound # {}))
    /\ UNCHANGED <<player, timing, i, entries, filename, timeout_left, start_check, jobs,
                   uith, caps, batch, util, prepLog, prepOK, skipped, stopSession, purged,
                   cycle, now, tmp>>

\* Lines 946-966: reset the timing fields and the flags, start the progress
\* tick, note the time the polling begins.
SetupTiming(timeout) ==
    /\ pc = "ps_setup"
    /\ play_start_time' = now /\ total_paused_time' = 0
    /\ last_pause_time' = 0 /\ pause_position' = 0
    /\ pause_flag' = FALSE /\ skip_flag' = FALSE
    /\ progress_event' = TRUE
    /\ timeout_left' = timeout /\ start_check' = now
    /\ pc' = "ps_loop"
    /\ cycle' = <<>>
    /\ UNCHANGED <<sound, current_file, queue, current_index, stop_flag, i,
                   entries, filename, success, jobs, uith, caps, batch, util, logs,
                   handleFailed, skipped, stopSession, purged, now, tmp,
                   hstate, hpos>>

\* Lines 967-973: the loop ends on stop or skip, or when the handle does not
\* report "play" while pause_flag is unset.
LoopExit == stop_flag \/ skip_flag \/ (SoundState # "play" /\ ~pause_flag)

PollCheck ==
    /\ pc = "ps_loop"
    /\ pc' = IF LoopExit THEN "ps_clean" ELSE "ps_sleep"
    /\ UNCHANGED <<player, timing, i, entries, filename, success, timeout_left, start_check,
                   jobs, uith, caps, batch, util, hist, now, tmp, hstate, hpos>>

\* A polling loop without the safety timeout.
TimedOutNever(left) == FALSE

\* A timeout check that lets one more polling interval pass.
TimedOutLate(left) == left < -1

\* Lines 976-979: the safety timeout: time.time() - start_check > timeout.
TimedOut(left) == left < 0

\* Lines 975-979: sleep one polling interval, then the timeout check. A
\* playing handle advances its position by the interval. A control handler
\* takes no time: the clock does not move while one is under way.
PollSleep(dt) ==
    /\ pc = "ps_sleep"
    /\ dt > 0 => upc = "idle"
    /\ now' = now + dt
    /\ hpos' = IF SoundState = "play" THEN hpos + dt ELSE hpos
    /\ timeout_left' = IF timeout_left < 0 THEN timeout_left ELSE timeout_left - 1
    /\ UNCHANGED start_check
    /\ pc' = IF TimedOut(timeout_left') THEN "ps_clean" ELSE "ps_loop"
    /\ UNCHANGED <<player, timing, i, entries, filename, success, jobs, uith,
                   caps, batch, util, hist, tmp, hstate>>

\* The result the docstring of play_song promises: False on skip as well.
PlayResultDocstring == ~stop_flag /\ ~skip_flag

\* Line 1007: the result of a session that reached the polling loop.
PlayResult == ~stop_flag

\* Lines 984-1007: stop the progress tick, stop and release the handle,
\* consume the skip flag; the result is "stop is not set".
PlayCleanup ==
    /\ pc = "ps_clean"
    /\ progress_event' = stop_progress_updates
    /\ hstate' = StopUnload(hstate, sound)
    /\ sound' = {}
    /\ skip_flag' = FALSE
    /\ timeout_left' = 0 /\ start_check' = 0
    /\ PlayReturn(PlayResult)
    /\ UNCHANGED <<current_file, queue, current_index, stop_flag, pause_flag,
                   timing, i, entries, filename, jobs, uith, caps, batch, util, hist, now,
                   tmp, hpos>>

\* The backend reaches the end of the track: the handle leaves "play".
TrackEnds(h) ==
    /\ hstate[h] = "play"
    /\ hstate' = [hstate EXCEPT ![h] = "stop"]
    /\ UNCHANGED <<player, timing, runloc, jobs, uith, caps, batch, util, hist, now, tmp, hpos>>

\* ------------------------------------------------ UI thread: control handlers
\* The UI thread can take a control call.
UiFree == upc = "idle" /\ ctl > 0

\* What _progress_tick computes as elapsed (lines 1029-1032).
Elapsed ==
    IF pause_flag /\ last_pause_time > 0
      THEN last_pause_time - play_start_time - total_paused_time
      ELSE now - play_start_time - total_paused_time

\* A guard of pause() that asks for a handle only.
PauseGuardLoaded == sound # {}

\* Line 1055: self.sound and getattr(self.sound, "state", None) == "play".
PauseGuard == SoundState = "play"

\* pause(), lines 1055-1067: only while the handle reports "play"; take the
\* position from the handle (a value, None, or get_pos raising), stop it.
PauseEnter ==
    /\ UiFree
    /\ PauseGuard
    /\ pause_position' =
         CASE getpos_kind = "value" -> hpos
           [] getpos_kind = "none" -> pause_position
           [] getpos_kind = "raise" -> now - play_start_time - total_paused_time
    /\ hstate' = StopSound(hstate, sound)
    /\ upc' = "pause" /\ ctl' = ctl - 1
    /\ cycle' = <<now - play_start_time - total_paused_time>>
    /\ UNCHANGED <<player, play_start_time, total_paused_time, last_pause_time,
                   runloc, jobs, caps, batch, util, logs, handleFailed, skipped,
                   stopSession, purged, now, tmp, hpos>>

\* toggle_pause (lines 1100-1104) calls pause() when pause_flag is unset.
PauseStop == ~pause_flag /\ PauseEnter

\* pause() called while its guard (line 1055) does not hold: nothing is done.
PauseIgnored ==
    /\ UiFree
    /\ ~PauseGuard
    /\ ctl' = ctl - 1
    /\ ignored' = "pause"
    /\ UNCHANGED <<player, timing, runloc, jobs, upc, caps, hist, now, tmp,
                   hstate, hpos, batch, conv_call, dur_call, progress, pc2>>

\* pause(), lines 1068-1072: set pause_flag, note the time of the pause.
PauseMark ==
    /\ upc = "pause"
    /\ pause_flag' = TRUE
    /\ last_pause_time' = IF last_pause_time = 0 THEN now ELSE last_pause_time
    /\ upc' = "idle"
    /\ UNCHANGED <<sound, current_file, queue, current_index, stop_flag,
                   skip_flag, progress_event, play_start_time,
                   total_paused_time, pause_position, runloc, jobs, ctl, caps, batch, util,
                   hist, now, tmp, hstate, hpos>>

\* Line 1078: self.sound and self.pause_flag.
ResumeGuard == sound # {} /\ pause_flag

\* resume() called while its guard (line 1078) does not hold: nothing is
\* done.
ResumeIgnored ==
    /\ UiFree
    /\ ~ResumeGuard
    /\ ctl' = ctl - 1
    /\ ignored' = "resume"
    /\ UNCHANGED <<player, timing, runloc, jobs, upc, caps, hist, now, tmp,
                   hstate, hpos, batch, conv_call, dur_call, progress, pc2>>

\* An accounting that stores the length of the last pause alone.
AddPauseLast(total, last, t) == t - last

\* Line 1080: total_paused_time += time.time() - last_pause_time.
AddPause(total, last, t) == total + (t - last)

\* resume(), lines 1078-1082: only with a handle and pause_flag set; add the
\* pause that ends to total_paused_time.
ResumeAccount ==
    /\ UiFree
    /\ ResumeGuard
    /\ total_paused_time' =
         IF last_pause_time > 0
           THEN AddPause(total_paused_time, last_pause_time, now)
           ELSE total_paused_time
    /\ last_pause_time' = 0
    /\ upc' = "resume" /\ ctl' = ctl - 1
    /\ UNCHANGED <<player, play_start_time, pause_position, runloc, jobs, caps, batch, util,
                   hist, now, tmp, hstate, hpos>>

\* resume(), lines 1083-1098: play the handle again and seek to the position
\* of the pause; when seek raises, play_start_time is moved instead. With
\* self.sound reset in between, play() raises and pause_flag stays set.
ResumePlay ==
    /\ upc = "resume"
    /\ upc' = "idle"
    /\ IF sound = {}
         THEN UNCHANGED <<pause_flag, hstate, hpos, play_start_time,
                          pause_position, cycle>>
         ELSE /\ cycle' = IF Len(cycle) = 1 THEN <<cycle[1], now>> ELSE cycle
              /\ hstate' = [h \in Handles |-> IF h \in sound THEN "play" ELSE hstate[h]]
              /\ pause_flag' = FALSE
              /\ IF pause_position # 0 /\ seek_kind = "ok"
                   THEN /\ hpos' = pause_position
                        /\ pause_position' = 0
                        /\ UNCHANGED play_start_time
                 ELSE IF pause_position # 0 /\ seek_kind = "raise"
                   THEN /\ hpos' = 0
                        /\ play_start_time' = now - (pause_position + total_paused_time)
                        /\ pause_position' = 0
                 ELSE /\ hpos' = 0
                      /\ UNCHANGED <<play_start_time, pause_position>>
    /\ UNCHANGED <<sound, current_file, queue, current_index, stop_flag,
                   skip_flag, progress_event, total_paused_time,
                   last_pause_time, runloc, jobs, ctl, caps, batch, util, logs,
                   handleFailed, skipped, stopSession, purged, now, tmp>>

\* DownloaderUI.skip_song (line 1565) and skip(), line 1107: with a playing
\* handle, set skip_flag.
Skip ==
    /\ UiFree
    /\ SoundState = "play"
    /\ skip_flag' = TRUE
    /\ upc' = "skip" /\ ctl' = ctl - 1
    /\ skipped' = skipped \cup sound
    /\ UNCHANGED <<sound, current_file, queue, current_index, stop_flag,
                   pause_flag, progress_event, timing, runloc, jobs, caps, batch, util,
                   logs, handleFailed, stopSession, purged, cycle, now, tmp,
                   hstate, hpos>>

\* skip(), lines 1108-1112: stop the handle that self.sound holds now, if any.
SkipStop ==
    /\ upc = "skip"
    /\ hstate' = StopSound(hstate, sound)
    /\ upc' = "idle"
    /\ UNCHANGED <<player, timing, runloc, jobs, ctl, caps, batch, util, hist,
                   now, tmp, hpos>>

\* stop(), lines 1121-1124: set stop, clear pause and skip, cancel the tick.
StopFlags ==
    /\ UiFree
    /\ pc # "idle"
    /\ stop_flag' = TRUE /\ pause_flag' = FALSE /\ skip_flag' = FALSE
    /\ progress_event' = stop_progress_updates
    /\ upc' = "stop" /\ ctl' = ctl - 1
    /\ stopSession' = IF InSession THEN stopSession \cup {i} ELSE stopSession
    /\ UNCHANGED <<sound, current_file, queue, current_index, timing, runloc,
                   jobs, caps, batch, util, logs, handleFailed, skipped, purged, cycle, now,
                   tmp, hstate, hpos>>

\* stop(), lines 1125-1132: stop and release the handle, purge temp_dir.
StopRelease ==
    /\ upc = "stop"
    /\ hstate' = StopUnload(hstate, sound)
    /\ sound' = {}
    /\ tmp' = cleanup_temp(tmp, current_file)
    /\ upc' = "idle"
    /\ UNCHANGED <<current_file, queue, current_index, stop_flag, pause_flag,
                   skip_flag, progress_event, timing, runloc, jobs, ctl, caps, batch, util,
                   hist, now, hpos>>

\* --------------------------------------------- batch download: DownloadManager
\* The directory without the file of download id.
Without(dir, id) == SelectSeq(dir, LAMBDA x : x[1] # id)

\* The directory after the fetch wrote the file of download id (overwrites).
Written(dir, id, kind) == Append(Without(dir, id), <<id, kind>>)

\* Lines 538-568: the "dl_" files sorted by modification time, newest first;
\* the first one that is not empty is taken as the entry's download.
Newest(dir) ==
    LET full == SelectSeq(dir, LAMBDA x : x[2] # "empty")
    IN  IF full = <<>> THEN {} ELSE {full[Len(full)]}

\* Lines 590-653: APP_DIR after the file of download id is saved under the
\* name of entry e: an mp3 replaces the entry's mp3, another container is
\* kept beside what is there (a time stamp is added to the name).
Saved(lib, e, kind, id) ==
    [lib EXCEPT ![e] = IF kind \in {"mp3", "empty"}
                         THEN {x \in @ : x[1] \notin {"mp3", "empty"}}
                                  \cup {<<kind, id>>}
                         ELSE @ \cup {<<kind, id>>}]

\* start_download (lines 444-449): clear the stop flag, start the worker.
start_download ==
    /\ bpc \in {"idle", "done"}
    /\ bruns < MaxBatchRuns
    /\ bruns' = bruns + 1
    /\ download_stop_flag' = FALSE
    /\ bpc' = "fetch" /\ bi' = 0 /\ binfo' = 0
    /\ blast' = NoEntry
    /\ UNCHANGED <<temp_download, library, stream, util>>

\* cancel_download (lines 451-454).
cancel_download ==
    /\ bpc \notin {"idle", "done"}
    /\ ~download_stop_flag
    /\ download_stop_flag' = TRUE
    /\ UNCHANGED <<bpc, bi, binfo, temp_download, library, bruns, stream, util, blast>>

\* Line 509: extract_info(url, download=True) writes the file of the next
\* entry into temp_download.
BatchFetchWrites(kind) ==
    /\ bpc = "fetch"
    /\ bi < MaxBatch
    /\ temp_download' = Written(temp_download, bi, kind)
    /\ bi' = bi + 1
    /\ UNCHANGED <<download_stop_flag, bpc, binfo, library, bruns, stream, util, blast>>

\* Lines 510-513: extract_info raises; _download_audio returns.
BatchFetchRaises ==
    /\ bpc = "fetch"
    /\ bpc' = "done" /\ bi' = 0
    /\ UNCHANGED <<download_stop_flag, binfo, temp_download, library, bruns,
                   stream, util, blast>>

\* Lines 509, 518-527: extract_info returns the entries it fetched.
BatchFetchReturns ==
    /\ bpc = "fetch"
    /\ binfo' = bi /\ bi' = 0
    /\ bpc' = "loop"
    /\ UNCHANGED <<download_stop_flag, temp_download, library, bruns, stream, util, blast>>

\* Lines 589-653: how the file of kind `kind` taken for an entry is handled:
\* a real mp3 is moved as it is ("direct"); without ffmpeg the original is
\* moved ("no_ffmpeg"); a transcode that succeeds is moved and the original
\* removed ("converted"); after one that fails the original is moved
\* ("kept").
BatchHow(kind, ffmpeg, out) ==
    IF is_real_mp3(kind) THEN "direct"
    ELSE IF ~ffmpeg THEN "no_ffmpeg"
    ELSE IF out \in {"exit0", "exit0_empty"} THEN "converted"
    ELSE "kept"

\* The content of the file that reaches APP_DIR.
BatchSaves(kind, how, out) ==
    IF how = "converted" THEN (IF out = "exit0" THEN "mp3" ELSE "empty")
    ELSE kind

\* Lines 529-657: one iteration of the loop over the entries. The newest
\* file is taken for the entry and saved to APP_DIR under the entry's name;
\* the transcoder, when called, writes to a fresh "conv_<time>.mp3".
BatchEntry(ffmpeg, out) ==
    /\ bpc = "loop"
    /\ IF bi >= binfo \/ download_stop_flag
         THEN /\ bpc' = "cleanup"
              /\ UNCHANGED <<bi, temp_download, library, blast>>
         ELSE /\ bpc' = "loop" /\ bi' = bi + 1
              /\ IF Newest(temp_download) = {}
                   THEN /\ blast' = [e |-> bi, id |-> 0, kind |-> "absent",
                                     how |-> "not_found"]
                        /\ UNCHANGED <<temp_download, library>>
                   ELSE LET d == CHOOSE x \in Newest(temp_download) : TRUE
                            how == BatchHow(d[2], ffmpeg, out)
                        IN  /\ temp_download' = Without(temp_download, d[1])
                            /\ library' = Saved(library, bi,
                                                BatchSaves(d[2], how, out), d[1])
                            /\ blast' = [e |-> bi, id |-> d[1], kind |-> d[2],
                                         how |-> how]
    /\ UNCHANGED <<download_stop_flag, binfo, bruns, stream, util>>

\* Lines 659-667: remove the files of temp_download.
BatchCleanup ==
    /\ bpc = "cleanup"
    /\ temp_download' = <<>>
    /\ bpc' = "done" /\ bi' = 0
    /\ UNCHANGED <<download_stop_flag, binfo, library, bruns, stream, util, blast>>

\* ------------------------------------------- the transcoder called on its own
\* The kinds of file content: none, a container that is not mp3, a real mp3,
\* zero bytes, part of an mp3.
FileKinds == {"absent", "raw", "mp3", "empty", "partial"}

\* A source file and a target path in any state, the call not yet made.
InitConv ==
    /\ InitPlayer /\ NoProgress /\ OneRun /\ NoneIgnored /\ NoDurCall
    /\ ctl = 0 /\ getpos_kind = "value" /\ seek_kind = "ok" /\ RawSources
    /\ \E a, b \in FileKinds :
          tmp = [f \in Files |-> IF f = DlFile(0) THEN a
                                 ELSE IF f = ConvFile(0) THEN b ELSE "absent"]
    /\ conv_call = [pc |-> "ready", out |-> "none", before |-> tmp[ConvFile(0)],
                    ret |-> FALSE]

\* convert_to_mp3_with_ffmpeg(source, target) is called and returns.
CallConvert(out) ==
    /\ conv_call.pc = "ready"
    /\ CanEnd(tmp, DlFile(0), out)
    /\ tmp' = convert_to_mp3_with_ffmpeg(tmp, ConvFile(0), out)
    /\ conv_call' = [pc |-> "returned", out |-> out, before |-> tmp[ConvFile(0)],
                     ret |-> ConvertSucceeds(tmp, ConvFile(0), out)]
    /\ UNCHANGED <<player, timing, runloc, jobs, uith, caps, hist, now, hstate,
                   hpos, batch, dur_call, aside>>

\* ------------------------------------------------ get_duration_best_effort
\* What a source yields is <<"num", n>> (the number n), <<"str", n>> (a
\* string that float() reads as n), <<"bad", 0>> (something float() raises
\* on) or <<"none", 0>>; the entry can be missing (<<"nometa", 0>>), mutagen
\* can be missing (<<"nomutagen", 0>>), the file can be inaccessible. A
\* result is no value ({}), the number n / d ({<<"val", n, d>>}) or an
\* exception ({Raised}).
Raised == <<"raise", 0, 0>>

\* float(x).
Float(v) ==
    IF v[1] \in {"num", "str"} THEN {<<"val", v[2], 1>>} ELSE {Raised}

\* Python's truth value of x.
Truthy(v) ==
    \/ v[1] = "num" /\ v[2] # 0
    \/ v[1] \in {"str", "bad"}

\* A try block whose handler is "pass".
TryKeeps(r) == r

\* try: ... except Exception: pass (lines 258-263, 267-272, 275-280).
Try(r) == IF r = {Raised} THEN {} ELSE r

\* Lines 257-263: the entry's "duration", returned when it is truthy.
EntryStep(c) ==
    IF c.entry[1] # "nometa" /\ Truthy(c.entry) THEN Try(Float(c.entry)) ELSE {}

\* Lines 266-272: mutagen's info.length, returned when it is truthy.
MutagenStep(c) ==
    IF c.mutagen[1] # "nomutagen" /\ Truthy(c.mutagen)
      THEN Try(Float(c.mutagen)) ELSE {}

\* SoundLoader.load at line 276 gives a handle.
LoaderLoads(c) == c.loader[1] # "none"

\* Lines 275-280: the length of the loaded handle, returned when positive.
LoaderStep(c) ==
    IF LoaderLoads(c) /\ Truthy(c.loader) /\ c.loader[2] > 0
      THEN Try(Float(c.loader)) ELSE {}

\* The bitrate assumed for the estimate, in kbps.
AssumedBitrateKbps == 128

\* An estimate that takes bytes for bits.
EstimateFromBytes(size, kbps) ==
    IF size[1] = "num" /\ size[2] > 0
      THEN {<<"val", size[2], kbps * 1000>>} ELSE {}

\* estimate_duration_from_size_bytes (lines 234-245): nothing for a file that
\* is inaccessible or empty, (size * 8) / (kbps * 1000.0) otherwise.
estimate_duration_from_size_bytes(size, kbps) ==
    IF size[1] = "num" /\ size[2] > 0
      THEN {<<"val", size[2] * 8, kbps * 1000>>} ELSE {}

\* get_duration_best_effort (lines 247-287): the first step that returns.
get_duration_best_effort(c) ==
    IF EntryStep(c) # {} THEN EntryStep(c)
    ELSE IF MutagenStep(c) # {} THEN MutagenStep(c)
    ELSE IF LoaderStep(c) # {} THEN LoaderStep(c)
    ELSE estimate_duration_from_size_bytes(c.size, AssumedBitrateKbps)

\* Line 276 is reached and creates a handle, which is never released.
LoadsHandle(c) == EntryStep(c) = {} /\ MutagenStep(c) = {} /\ LoaderLoads(c)

\* The values the sources of a file can yield.
EntryValues == {<<"nometa", 0>>, <<"none", 0>>, <<"bad", 0>>, <<"num", -1>>,
                <<"num", 0>>, <<"num", 2>>, <<"str", 5>>}
MutagenValues == {<<"nomutagen", 0>>, <<"none", 0>>, <<"num", -1>>,
                  <<"num", 0>>, <<"num", 3>>}
LoaderValues == {<<"none", 0>>, <<"num", -1>>, <<"num", 0>>, <<"num", 4>>}
SizeValues == {<<"inaccessible", 0>>, <<"num", 0>>, <<"num", 16000>>,
               <<"num", 1000000>>}

\* A file and an entry with any sources, no call made.
InitDur ==
    /\ InitPlayer /\ NoProgress /\ OneRun /\ NoneIgnored /\ EmptyTemp /\ NoConvCall
    /\ ctl = 0 /\ getpos_kind = "value" /\ seek_kind = "ok" /\ RawSources
    /\ \E e \in EntryValues, m \in MutagenValues, l \in LoaderValues,
          z \in SizeValues :
          dur_call = [entry |-> e, mutagen |-> m, loader |-> l, size |-> z,
                      rets |-> <<>>, loaded |-> 0]

\* A call that takes the duration out of the entry (pop instead of get).
CallDurationPops ==
    /\ Len(dur_call.rets) < MaxDurCalls
    /\ dur_call' = [dur_call EXCEPT
                      !.rets = Append(@, get_duration_best_effort(dur_call)),
                      !.entry = IF @[1] = "nometa" THEN @ ELSE <<"none", 0>>]
    /\ UNCHANGED <<stream, batch, conv_call, aside>>

\* get_duration_best_effort(file_path, entry_metadata) is called and returns.
CallDuration ==
    /\ Len(dur_call.rets) < MaxDurCalls
    /\ dur_call' = [dur_call EXCEPT
                      !.rets = Append(@, get_duration_best_effort(dur_call)),
                      !.loaded = IF LoadsHandle(dur_call) THEN @ + 1 ELSE @]
    /\ UNCHANGED <<stream, batch, conv_call, aside>>

\* ------------------------------------- a second call of start_stream
\* DownloaderUI.start_stream (lines 1691-1697) while the first run is under
\* way: another thread is started on stream_playlist of the same
\* StreamPlayer (self.streamer).
StartStreamAgain ==
    /\ pc \notin {"idle", "done"}
    /\ pc2 = "idle"
    /\ pc2' = "init"
    /\ UNCHANGED <<stream, batch, conv_call, dur_call, progress, ignored>>

\* Lines 705-710 in the second thread: the flags and the index of the one
\* StreamPlayer are reset, its temp_dir is purged.
RunInitAgain ==
    /\ pc2 = "init"
    /\ stop_flag' = FALSE /\ pause_flag' = FALSE /\ skip_flag' = FALSE
    /\ current_index' = 0
    /\ tmp' = cleanup_temp(tmp, current_file)
    /\ pc2' = "resolve"
    /\ UNCHANGED <<sound, current_file, queue, progress_event, timing, runloc,
                   jobs, uith, caps, hist, now, hstate, hpos, batch, conv_call,
                   dur_call, progress, ignored>>

\* Lines 712-717 in the second thread: its URL yields m entries, which
\* become self.queue; the thread is followed no further.
ResolveAgain(m) ==
    /\ pc2 = "resolve"
    /\ queue' = IF m = 0 THEN queue ELSE [k \in 1 .. m |-> k - 1]
    /\ pc2' = "done"
    /\ UNCHANGED <<sound, current_file, current_index, stop_flag, pause_flag,
                   skip_flag, progress_event, timing, runloc, jobs, uith, caps,
                   hist, now, tmp, hstate, hpos, batch, conv_call, dur_call,
                   progress, ignored>>

\* The steps of the second thread.
SecondRun == RunInitAgain \/ \E m \in 0 .. MaxEntries : ResolveAgain(m)

\* ---------------------------------------------------------- _progress_tick
\* A percentage that is not clamped.
ProgressPctRaw(elapsed, n, d) == <<elapsed * d * 100, n>>

\* Lines 1037, 1045: min(100.0, (elapsed / duration) * 100.0) for the
\* duration n / d, as <<numerator, denominator>>.
ProgressPct(elapsed, n, d) ==
    IF elapsed * d * 100 > 100 * n THEN <<100, 1>> ELSE <<elapsed * d * 100, n>>

\* Lines 1035, 1043: "duration and duration > 0", "if estimated".
PositiveDuration(r) == \E x \in r : x[1] = "val" /\ x[2] > 0

\* Lines 1034-1050: the call of ui.update_playback_progress(p, e, d) that
\* the tick schedules for a file whose duration sources are c.
ProgressEvent(c, elapsed) ==
    LET dur == get_duration_best_effort(c)
        est == estimate_duration_from_size_bytes(c.size, AssumedBitrateKbps)
        known == IF PositiveDuration(dur) THEN dur
                 ELSE IF PositiveDuration(est) THEN est ELSE {}
    IN  IF known # {}
          THEN LET x == CHOOSE y \in known : TRUE
               IN  [sent |-> TRUE, pct |-> ProgressPct(elapsed, x[2], x[3]),
                    elapsed |-> elapsed, total |-> known, src |-> c]
          ELSE [sent |-> TRUE, pct |-> <<0, 1>>, elapsed |-> elapsed,
                total |-> {}, src |-> c]

\* What the sources of the duration of current_file can yield at a tick.
TickSources ==
    {[entry |-> e, mutagen |-> <<"nomutagen", 0>>, loader |-> <<"none", 0>>,
      size |-> z] :
        e \in {<<"none", 0>>, <<"num", -1>>, <<"num", 2>>},
        z \in {<<"inaccessible", 0>>, <<"num", 16000>>}}

\* _progress_tick (lines 1024-1052), called by the Clock on the UI thread
\* every 0.5 s while progress_event is scheduled; without current_file it
\* returns at once.
ProgressTick(c) ==
    /\ progress_event
    /\ upc = "idle"
    /\ current_file # {}
    /\ progress' = ProgressEvent(c, Elapsed)
    /\ UNCHANGED <<stream, batch, conv_call, dur_call, pc2, ignored>>

\* ------------------------------------------------------------ specification
\* The steps of the run thread outside the blocking acquisition job, for a
\* URL of n entries (n in Ns), a session timeout of `timeout` polling
\* intervals and a clock that moves by dt in a polling sleep.
RunStep(Ns, timeout, dt) ==
    \/ RunInit
    \/ \E m \in Ns : Resolve(m)
    \/ LoopHead
    \/ PrepareRaises
    \/ PlayEnter
    \/ \E ok \in BOOLEAN : LoadSound(ok)
    \/ \E ok \in BOOLEAN : StartPlay(ok)
    \/ SetupTiming(timeout)
    \/ PollCheck
    \/ PollSleep(dt)
    \/ PlayCleanup
    \/ AfterPlay
    \/ RunFinal

\* The steps of an acquisition job whose transcoder calls end in one of outs.
JobStepWith(t, outs) ==
    \/ FetchFails(t)
    \/ \E ffmpeg \in BOOLEAN : FetchDone(t, source_kind[JobEntry(t)], ffmpeg)
    \/ \E out \in outs : Convert(t, out)

JobStep(t) == JobStepWith(t, PlainOutcomes)

PauseStep ==
    \/ PauseStop
    \/ PauseMark
    \/ ResumeAccount
    \/ ResumePlay

\* One streaming run with the user at the controls.
Next ==
    \/ StartStream
    \/ RunStep(0 .. MaxEntries, TimeoutPolls, 0)
    \/ \E t \in Entries : JobStep(t)
    \/ PauseStep
    \/ Skip
    \/ SkipStop
    \/ StopFlags
    \/ StopRelease
    \/ \E h \in Handles : TrackEnds(h)

Spec == Init /\ [][Next]_vars

\* The run thread is scheduled, and every fetch and transcode call returns.
RunThread == RunStep(0 .. MaxEntries, TimeoutPolls, 0) \/ JobStep(0)

FairSpec == Spec /\ WF_vars(RunThread)

\* One streaming run without control calls.
NextQuiet ==
    \/ StartStream
    \/ RunStep(0 .. MaxEntriesQuiet, TimeoutPolls, 0)
    \/ \E t \in Entries : JobStep(t)
    \/ \E h \in Handles : TrackEnds(h)

SpecQuiet == Init /\ [][NextQuiet]_vars

\* One streaming run of a single entry with the clock running and the user
\* pausing and resuming.
NextTimed ==
    \/ StartStream
    \/ RunStep({1}, TimeoutPollsTimed, 1)
    \/ JobStep(0)
    \/ PauseStep
    \/ \E h \in Handles : TrackEnds(h)

SpecTime == InitTimed /\ [][NextTimed]_vars

\* A streaming run without control calls, and start_stream called again
\* while it is under way.
NextTwice ==
    \/ StartStream
    \/ RunStep(0 .. MaxEntries, TimeoutPolls, 0)
    \/ \E t \in Entries : JobStep(t)
    \/ \E h \in Handles : TrackEnds(h)
    \/ StartStreamAgain
    \/ SecondRun

SpecTwice == Init /\ [][NextTwice]_vars

\* stop() called on the run while its first entry is current and its
\* flags have been reset (line 705 is behind it).
StopFirst ==
    /\ i = 0
    /\ pc \in {"resolve", "loop", "prepare", "post"} \/ InSession
    /\ StopFlags

\* start_stream called again on the UI thread, between two control calls.
RestartStream == upc = "idle" /\ StartStreamAgain

\* A streaming run that is stopped during its first entry, and start_stream
\* called again while it is under way.
NextRestart ==
    \/ StartStream
    \/ RunStep(0 .. MaxEntries, TimeoutPolls, 0)
    \/ \E t \in Entries : JobStep(t)
    \/ \E h \in Handles : TrackEnds(h)
    \/ StopFirst
    \/ StopRelease
    \/ RestartStream
    \/ SecondRun

SpecRestart == Init /\ [][NextRestart]_vars

\* A streaming run during which pause() and resume() are called in any
\* state.
NextCalls ==
    \/ StartStream
    \/ RunStep(0 .. MaxEntries, TimeoutPolls, 0)
    \/ \E t \in Entries : JobStep(t)
    \/ \E h \in Handles : TrackEnds(h)
    \/ PauseEnter
    \/ PauseIgnored
    \/ PauseMark
    \/ ResumeAccount
    \/ ResumeIgnored
    \/ ResumePlay

SpecCalls == Init /\ [][NextCalls]_vars

\* The same run with the progress tick of the UI thread.
NextTick ==
    \/ NextTimed
    \/ \E c \in TickSources : ProgressTick(c)

SpecTick == InitTimed /\ [][NextTick]_vars

\* Batch downloads, one after the other, with the user able to cancel.
NextBatch ==
    \/ start_download
    \/ cancel_download
    \/ \E kind \in {"mp3", "raw", "empty"} : BatchFetchWrites(kind)
    \/ BatchFetchRaises
    \/ BatchFetchReturns
    \/ \E ffmpeg \in BOOLEAN, out \in PlainOutcomes : BatchEntry(ffmpeg, out)
    \/ BatchCleanup

SpecBatch == Init /\ [][NextBatch]_vars

\* URLs whose entries come as mp3 or as another container.
InitAcq ==
    /\ InitPlayer /\ NoProgress /\ OneRun /\ NoneIgnored /\ EmptyTemp /\ NoConvCall /\ NoDurCall
    /\ ctl = 0 /\ getpos_kind = "value" /\ seek_kind = "ok"
    /\ source_kind \in [Entries -> {"raw", "mp3"}]
    /\ \A e \in Entries : e >= MaxEntriesAcq => source_kind[e] = "raw"

\* Either one streaming run without control calls or batch downloads, with
\* every outcome of the transcoder.
NextAcq ==
    \/ StartStream /\ bruns = 0
    \/ RunStep(0 .. MaxEntriesAcq, TimeoutPolls, 0)
    \/ \E t \in Entries : JobStepWith(t, ConvOutcomes)
    \/ \E h \in Handles : TrackEnds(h)
    \/ start_download /\ pc = "idle"
    \/ cancel_download
    \/ \E kind \in {"mp3", "raw", "empty"} : BatchFetchWrites(kind)
    \/ BatchFetchRaises
    \/ BatchFetchReturns
    \/ \E ffmpeg \in BOOLEAN, out \in ConvOutcomes : BatchEntry(ffmpeg, out)
    \/ BatchCleanup

SpecAcq == InitAcq /\ [][NextAcq]_vars

\* One call of the transcoder.
NextConv == \E out \in ConvOutcomes : CallConvert(out)

SpecConv == InitConv /\ [][NextConv]_vars

\* Calls of get_duration_best_effort on one unchanged file.
NextDur == CallDuration

SpecDur == InitDur /\ [][NextDur]_vars

\* -------------------------------------------------------------- properties
\* Entry e's handle was started by play_song.
Started(e) == \E j \in 1 .. Len(playLog) : playLog[j] = e

\* The playback session of the handle in self.sound is active.
SessionActive == sound # {} /\ pc \in {"ps_play", "ps_setup", "ps_loop",
                                        "ps_sleep", "ps_clean"}

\* C1: the iterations of a run take the entries in source order: the j-th
\* iteration has index j - 1, current_index is the index of the last
\* iteration begun, and a loop that ends without stop has taken every entry.
SourceOrder ==
    /\ Len(prepLog) <= Len(entries)
    /\ \A j \in 1 .. Len(prepLog) : prepLog[j] = j - 1 /\ entries[j] = prepLog[j]
    /\ current_index = IF prepLog = <<>> THEN 0 ELSE Len(prepLog) - 1
    /\ (pc \in {"final", "done"} /\ ~stop_flag) => Len(prepLog) = Len(entries)

SourceOrderWitness ==
    pc = "done" /\ ~stop_flag /\ prepLog = <<0, 1>> /\ playLog = <<0>>

\* C2: at most one handle is in the state "play".
OnePlaying == Cardinality({h \in Handles : hstate[h] = "play"}) <= 1

OnePlayingWitness ==
    hstate[1] = "play" /\ hstate[0] = "unloaded" /\ playLog = <<0, 1>>

\* The tolerance of half a second, in polling intervals of 0.3 s.
TolerancePolls == 1

\* C3: after pause() at elapsed E and resume(), the elapsed value of the
\* progress tick is E plus the time since resume(), within the tolerance.
PausedTimeNotCounted ==
    (Len(cycle) = 2 /\ ~pause_flag /\ SessionActive) =>
        LET due == cycle[1] + (now - cycle[2])
        IN  /\ Elapsed - due <= TolerancePolls
            /\ due - Elapsed <= TolerancePolls

\* C4: with no stop, no skip and no handle refused, a finished run has
\* started the handles of exactly the entries whose preparation succeeded,
\* each once, in source order.
PreparedArePlayed ==
    (pc = "done" /\ ~handleFailed) =>
        playLog = SelectSeq(entries, LAMBDA e : e \in prepOK)

\* C5: at most one prefetch thread is running.
OnePrefetch ==
    Cardinality({k \in Entries \ {0} : jpc[k] \in {"dl", "conv"}}) <= 1

\* C6: the file of the active playback session is in temp_dir.
ActiveFileKept == SessionActive => \A f \in current_file : Exists(f)

StopAborts ==
    \A e \in stopSession :
        /\ \A j \in 1 .. Len(prepLog) : prepLog[j] <= e
        /\ \A j \in 1 .. Len(playLog) : playLog[j] <= e
        /\ (pc = "post" /\ i = e) => ~success

StopAbortsWitness ==
    stopSession = {0} /\ pc = "done" /\ Len(entries) = 2 /\ playLog = <<0>>

\* C9: a run with a non-empty queue ends, and it has purged temp_dir when it
\* ends.
RunTerminates ==
    /\ (pc = "loop") ~> (pc = "done")
    /\ [](pc = "done" /\ entries # <<>> => purged)

RunTerminatesWitness ==
    pc = "done" /\ purged /\ Len(entries) = 2 /\ skipped = {1} /\ prepOK = {1}

\* C10: a batch download that has ended has left no file in temp_download.
BatchCleansUp == bpc = "done" => temp_download = <<>>

\* C11: with the transcoder unavailable the call returns failure and there
\* is no file at the target path when it returns.
UnavailableLeavesNoTarget ==
    (conv_call.pc = "returned" /\ conv_call.out = "unavailable") =>
        ~conv_call.ret /\ tmp[ConvFile(0)] = "absent"

\* C12: after a non-zero exit, a timeout or an error of the transcoder the
\* call returns failure and there is no file at the target path.
FailureLeavesNoTarget ==
    (conv_call.pc = "returned"
        /\ conv_call.out \in {"nonzero", "nonzero_partial", "timeout"}) =>
        ~conv_call.ret /\ tmp[ConvFile(0)] = "absent"

FailureLeavesNoTargetWitness ==
    conv_call.pc = "returned" /\ conv_call.out = "timeout"
        /\ conv_call.before = "mp3" /\ tmp[DlFile(0)] = "raw"

\* C13: the call returns success only with a target file that exists and
\* is not empty.
SuccessHasTarget ==
    (conv_call.pc = "returned" /\ conv_call.ret) =>
        tmp[ConvFile(0)] \notin {"absent", "empty"}

\* C14: a candidate that passes is_real_mp3 is used as it is and the
\* transcoder is not called on it: the streaming job returns that very file,
\* no job is in a transcoder call with an mp3 as its source, and the batch
\* loop moves the file to the library as the entry's mp3.
Mp3UsedDirectly ==
    /\ jhow.kind = "mp3" => jhow.how = "direct"
    /\ (jhow.kind = "mp3" /\ pc = "ps_enter") =>
          filename # {} /\ \A f \in filename : tmp[f] = "mp3"
    /\ \A t \in Entries :
          jpc[t] = "conv" => tmp[DlFile(JobEntry(t))] # "mp3"
    /\ blast.kind = "mp3" =>
          blast.how = "direct" /\ <<"mp3", blast.id>> \in library[blast.e]

Mp3UsedDirectlyWitness ==
    /\ jhow = Outcome("direct", "mp3") /\ pc = "ps_enter" /\ i = 1
    /\ filename = {DlFile(1)} /\ source_kind[0] = "raw"

Mp3UsedDirectlyBatchWitness ==
    blast.kind = "mp3" /\ blast.e = 1 /\ bruns = 2 /\ bpc = "done"

\* C15: after a transcode that succeeds the job uses the transcoded file and
\* the original candidate is no longer in the temporary directory: when the
\* streaming job has returned, and when the batch loop has handled the entry.
OriginalDeleted ==
    /\ (jhow.how = "converted" /\ pc = "ps_enter") =>
          filename = {ConvFile(i)} /\ tmp[DlFile(i)] = "absent"
    /\ blast.how = "converted" =>
          /\ \A k \in 1 .. Len(temp_download) : temp_download[k][1] # blast.id
          /\ \E x \in library[blast.e] :
                x[2] = blast.id /\ x[1] \in {"mp3", "empty"}

\* C16: when the transcoder is absent or its call fails, the job still
\* succeeds with the original candidate in its own format: the streaming job
\* returns the original file, which is there, and the entry goes on to
\* play_song; the batch loop moves the original to the library.
FallbackKeepsOriginal ==
    /\ jhow.how # "lost"
    /\ jhow.how \in {"no_ffmpeg", "kept"} =>
          /\ current_index \in prepOK
          /\ pc = "ps_enter" =>
                filename = {DlFile(i)} /\ tmp[DlFile(i)] = jhow.kind
    /\ blast.how \in {"no_ffmpeg", "kept"} =>
          <<blast.kind, blast.id>> \in library[blast.e]

FallbackKeepsOriginalWitness ==
    /\ jhow = Outcome("kept", "raw") /\ current_file = {DlFile(1)}
    /\ playLog = <<0, 1>> /\ hstate[1] = "play"

\* The number a source yields, when it yields a positive one.
PositiveOf(v) ==
    IF v[1] \in {"num", "str"} /\ v[2] > 0 THEN {<<"val", v[2], 1>>} ELSE {}

\* The value of the first source, in the order entry, file metadata, loaded
\* handle, size estimate, that yields a positive number.
FirstPositive(c) ==
    IF PositiveOf(c.entry) # {} THEN PositiveOf(c.entry)
    ELSE IF PositiveOf(c.mutagen) # {} THEN PositiveOf(c.mutagen)
    ELSE IF PositiveOf(c.loader) # {} THEN PositiveOf(c.loader)
    ELSE IF c.size[1] = "num" /\ c.size[2] > 0
      THEN {<<"val", c.size[2] * 8, 128 * 1000>>}
    ELSE {}

\* C17: each call returns the value of the first source that yields a
\* positive number, passing over zero, negative and missing values.
FirstPositiveSource ==
    \A j \in 1 .. Len(dur_call.rets) : dur_call.rets[j] = FirstPositive(dur_call)

\* C18: no call raises; a call returns no value only for a file that is
\* inaccessible or empty.
DurationNeverRaises ==
    \A j \in 1 .. Len(dur_call.rets) :
        /\ dur_call.rets[j] # {Raised}
        /\ dur_call.rets[j] = {} =>
              (dur_call.size[1] = "inaccessible" \/ dur_call.size[2] = 0)

DurationNeverRaisesWitness ==
    /\ Len(dur_call.rets) = 1 /\ dur_call.entry = <<"bad", 0>>
    /\ dur_call.mutagen = <<"none", 0>> /\ dur_call.loader = <<"num", -1>>
    /\ dur_call.size = <<"num", 16000>> /\ dur_call.rets[1] # {}

\* C19: with the file size as the only source, the value returned is
\* size * 8 / (128 * 1000) seconds: 62.5 for 1,000,000 bytes.
SizeEstimate ==
    \A j \in 1 .. Len(dur_call.rets) :
        (/\ dur_call.entry[1] \in {"nometa", "none"}
         /\ dur_call.mutagen[1] \in {"nomutagen", "none"}
         /\ dur_call.loader[1] = "none"
         /\ dur_call.size[1] = "num" /\ dur_call.size[2] > 0) =>
            \E r \in dur_call.rets[j] :
                /\ r[1] = "val"
                /\ r[2] = dur_call.size[2] * 8 /\ r[3] = 128 * 1000
                /\ dur_call.size[2] = 1000000 => 2 * r[2] = 125 * r[3]

SizeEstimateWitness ==
    /\ Len(dur_call.rets) = 1 /\ dur_call.entry[1] = "none"
    /\ dur_call.mutagen[1] = "none" /\ dur_call.loader[1] = "none"
    /\ dur_call.size = <<"num", 1000000>>
    /\ dur_call.rets[1] = {<<"val", 8000000, 128000>>}

QueueCleared == pc = "done" => queue = <<>>

\* C22: current_index is an index into self.queue or its length, and it is
\* the length once the run has finished.
IndexInQueue ==
    /\ current_index \in 0 .. Len(queue)
    /\ pc = "done" => current_index = Len(queue)

\* C23: the polling loop is left at the first check after the timeout has
\* passed, whatever the handle reports: while the loop runs, no more than the
\* timeout has passed since it was entered. A session the timeout ends
\* returns True when stop is unset, and the driver goes on to the next index.
TimeoutEndsSession ==
    /\ [](pc \in {"ps_loop", "ps_sleep"} => now - start_check <= TimeoutPollsTimed)
    /\ [][(pc = "ps_clean" /\ timeout_left < 0 /\ pc' = "post" /\ ~stop_flag')
             => success']_vars
    /\ [][(pc = "post" /\ pc' # "post") => (pc' = "loop" /\ i' = i + 1)]_vars

TimeoutEndsSessionWitness ==
    /\ pc = "post" /\ success /\ ~stop_flag /\ playLog = <<0>>
    /\ now = TimeoutPollsTimed + 2 /\ hstate[0] = "unloaded"

PausedTimeGrows ==
    [][total_paused_time' # total_paused_time =>
         \/ pc = "ps_setup" /\ pc' = "ps_loop" /\ total_paused_time' = 0
         \/ /\ upc = "idle" /\ upc' = "resume"
            /\ total_paused_time' = total_paused_time + (now - last_pause_time)
            /\ total_paused_time' > total_paused_time]_vars

PausedTimeGrowsWitness ==
    /\ total_paused_time = 2 /\ ~pause_flag /\ hstate[0] = "play"
    /\ pc = "ps_loop" /\ ctl = 0 /\ now = 4

\* C26: no step of a second run changes the queue, the index, the flags,
\* the handle, the current file or the temporary directory of the first.
RunsIsolated ==
    [][SecondRun => UNCHANGED <<queue, current_index, stop_flag, skip_flag,
                                pause_flag, sound, current_file, tmp>>]_vars

\* C27: a file that is in APP_DIR stays there with its content: no step of
\* a batch download removes or replaces it.
LibraryOnlyGrows ==
    [][\A e \in DOMAIN library : library[e] \subseteq library'[e]]_vars

\* C28: once the run has ended and no prefetch thread is at work, temp_dir
\* holds no file.
TempDirEmptied ==
    (pc = "done" /\ \A k \in Entries : jpc[k] \notin {"dl", "conv"}) =>
        \A f \in Files : tmp[f] = "absent"

\* C29: a call of pause() made while the handle is not playing (no handle,
\* a handle that is loaded or has ended, a handle that pause() has stopped)
\* returns without changing pause_flag, last_pause_time, pause_position or
\* the handle.
PauseOnlyPlaying ==
    [][((PauseEnter \/ PauseIgnored) /\ SoundState # "play") =>
         (upc' = "idle" /\ UNCHANGED <<pause_flag, last_pause_time,
                                       pause_position, hstate, hpos>>)]_vars

PauseOnlyPlayingWitness ==
    /\ ignored = "pause" /\ pause_flag /\ SoundState = "stop" /\ pc = "ps_loop"
    /\ ctl = MaxCtl - 2 /\ last_pause_time > 0

\* C30: a call of resume() made while the handle is playing, or without a
\* handle, returns without changing total_paused_time, last_pause_time,
\* play_start_time, pause_flag or the handle.
ResumeOnlyPaused ==
    [][((ResumeAccount \/ ResumeIgnored) /\ SoundState \in {"play", "None"}) =>
         (upc' = "idle" /\ UNCHANGED <<total_paused_time, last_pause_time,
                                       play_start_time, pause_flag, hstate,
                                       hpos>>)]_vars

\* C31: when SoundLoader.load gives no handle, play_song returns False with
\* no handle set or playing and no progress tick scheduled; the driver then
\* removes the prepared file and goes on to the next index, which it
\* prepares when there is an entry for it and stop is unset.
LoadFailureSkips ==
    /\ [][LoadSound(FALSE) =>
             /\ pc' = "post" /\ ~success' /\ sound' = {} /\ ~progress_event'
             /\ \A h \in Handles : hstate'[h] # "play"]_vars
    /\ [][(pc = "post" /\ pc' # "post") =>
             /\ pc' = "loop" /\ i' = i + 1
             /\ \A f \in filename : tmp'[f] = "absent"]_vars
    /\ [][(pc = "loop" /\ pc' # "loop" /\ i < Len(entries) /\ ~stop_flag) =>
             (pc' = "prepare" /\ current_index' = i)]_vars

LoadFailureSkipsWitness ==
    /\ handleFailed /\ 0 \in prepOK /\ hstate[0] = "none"
    /\ playLog = <<1>> /\ hstate[1] = "play" /\ tmp[DlFile(0)] = "absent"

\* C32: a progress tick is scheduled only between start_progress_updates and
\* the end of play_song, so none is scheduled once play_song has returned; and
\* a tick scheduled although stop_flag is set belongs to a run that is at the
\* loop test of line 967 or on its way out of play_song, never in another
\* polling interval.
TickOnlyInSession ==
    /\ progress_event => pc \in {"ps_loop", "ps_sleep", "ps_clean"}
    /\ (progress_event /\ stop_flag) => pc \in {"ps_loop", "ps_clean"}

TickOnlyInSessionWitness ==
    /\ pc = "post" /\ ~success /\ stop_flag /\ upc = "idle"
    /\ 0 \in stopSession /\ playLog = <<0>> /\ ~progress_event

\* C33: while a pause() call is under way (its sound.stop() of line 1066 done,
\* its pause_flag of line 1068 not yet set) and neither stop nor skip is
\* requested, the loop test of play_song does not leave the polling loop.
PauseNeverEndsSession ==
    [][(pc = "ps_loop" /\ upc = "pause" /\ ~stop_flag /\ ~skip_flag)
          => pc' # "ps_clean"]_vars

\* C34: the blocking _prepare_for_stream call of the run thread (job 0, for
\* entry i) never runs while the prefetch thread of the same entry is still
\* downloading or converting.
NoOverlappingJobs ==
    \A k \in Entries \ {0} :
        ~(i = k /\ jpc[0] \in {"dl", "conv"} /\ jpc[k] \in {"dl", "conv"})

\* stop() was called while the entry now handed to play_song was being
\* prepared: stop_flag is set, and not by a call made inside this play_song.
StoppedInPrepare == stop_flag /\ i \notin stopSession

\* C35, first half: a preparation that returns with stop_flag set starts no
\* prefetch thread.
NoPrefetchAfterStop ==
    [][(pc = "prepare" /\ stop_flag) =>
          \A k \in Entries \ {0} : (jpc[k] # "dl" => jpc'[k] # "dl")]_vars

\* C35, second half: the handle of an entry whose preparation was stopped is
\* never started.
NoPlayAfterStop ==
    [][(pc = "ps_play" /\ StoppedInPrepare) =>
          \A h \in Handles : hstate'[h] # "play"]_vars

\* C35: if stop() is called while entry i is being prepared, the run neither
\* spawns the prefetch of entry i+1 nor starts a handle for entry i once the
\* preparation has returned.
StopInPrepareHalts == NoPrefetchAfterStop /\ NoPlayAfterStop

\* C36: once stop() has been called while the first entry of the run is
\* current, the run starts no session for the second entry, whether or not
\* start_stream is called again.
StopNeverLost == ctl < MaxCtl => ~Started(1)

\* temp_download holds exactly one file with content for each entry that
\* the relocation loop has not yet handled.
OneFilePerEntry ==
    /\ Len(temp_download) = binfo - bi
    /\ \A k \in bi .. binfo - 1 :
          \E j \in 1 .. Len(temp_download) :
              temp_download[j][1] = k /\ temp_download[j][2] # "empty"

\* C37: in a batch run whose fetch left one file per entry, the relocation
\* loop takes for entry k the file that the fetch of entry k wrote.
EntryGetsOwnFile ==
    [][(bpc = "loop" /\ bi < binfo /\ ~download_stop_flag /\ OneFilePerEntry)
          => (blast'.how # "not_found" /\ blast'.id = bi)]_vars

\* C38: the safety timeout (the polling sleep that leaves the loop) ends a
\* session only when its elapsed play time, paused time left out, is no
\* longer below the timeout.
TimeoutSparesPaused ==
    [][(pc = "ps_sleep" /\ pc' = "ps_clean") => Elapsed' >= TimeoutPollsTimed]_vars

\* skip_flag is unset when play_song returns and when a polling loop starts.
SkipFlagCleared ==
    [][/\ (pc = "ps_clean" /\ pc' = "post") => ~skip_flag'
       /\ (pc = "ps_setup" /\ pc' = "ps_loop") => ~skip_flag']_vars

\* The handle that a skip() call stops is one that was playing when the call
\* was made.
SkipStopsOwnHandle ==
    [][(upc = "skip" /\ upc' = "idle") =>
          \A h \in Handles :
              (hstate[h] = "play" /\ hstate'[h] = "stop") => h \in skipped]_vars

\* C39: a skip() call ends at most one session: skip_flag is cleared when it
\* is consumed and unset when the next polling loop starts, and the call
\* stops no handle but the one of the session it was made in.
SkipEndsOneSession == SkipFlagCleared /\ SkipStopsOwnHandle

\* The elapsed value of a progress tick is not negative and not below that
\* of the tick before it.
ElapsedNeverDecreases ==
    [][progress' # progress =>
          /\ progress'.elapsed >= 0
          /\ progress.sent => progress'.elapsed >= progress.elapsed]_vars

\* While one pause lasts, the elapsed value a tick would compute is the same.
ElapsedFrozenInPause ==
    [][(pause_flag /\ last_pause_time > 0 /\ pause_flag'
          /\ last_pause_time' = last_pause_time) => Elapsed' = Elapsed]_vars

\* C40: within a session the elapsed value of successive progress ticks is
\* never negative, never decreases and does not change during a pause, for
\* every sequence of pause() and resume() calls.
ElapsedMonotone == ElapsedNeverDecreases /\ ElapsedFrozenInPause

====
